---- MODULE Spec2Model ----
(***************************************************************************)
(* ViewHtml (src/src/ViewHtml.ts, first class declaration, lines 13-132):  *)
(* a template processor holding a document string `html` and a keyword     *)
(* `prefix`.  Strings are sequences of one-character strings.  A regular   *)
(* expression is modelled by the leftmost, non-overlapping scan that       *)
(* String.prototype.replace performs with a /g pattern and a callback.     *)
(***************************************************************************)
EXTENDS Integers, Sequences, FiniteSets, TLC

\* Bounds of the model.
MaxPieces == 1
MaxSteps == 3

(***************************************************************************)
(* Characters and inputs                                                   *)
(***************************************************************************)
\* \w restricted to the characters the inputs below are built from.
WordChars ==
    {"a", "b", "c", "d", "e", "f", "i", "l", "n", "o", "r", "t", "u", "v", "x", "y",
     "H", "O"}

IsWordChar(c) == c \in WordChars

\* The name of a property every plain object inherits from Object.prototype.
valueOf == <<"v", "a", "l", "u", "e", "O", "f">>

forOpen == <<"@", "f", "o", "r", ":", "r", "{">>

\* The pieces documents are concatenated from.
Pieces ==
    { <<"$", "a">>,
      <<"#", "b">>,
      <<"$">> \o valueOf,
      forOpen \o <<"$", "a", "}">>,
      forOpen \o <<"$">> \o valueOf \o <<"}">>,
      <<"$", "a">> \o forOpen \o <<"$", "a", "}">>,
      forOpen \o <<"{", "}", "}">>,
      forOpen \o <<"#", "b">> }

RECURSIVE Flatten(_)
Flatten(ps) == IF ps = <<>> THEN <<>> ELSE Head(ps) \o Flatten(Tail(ps))

Docs == { Flatten(ps) : ps \in UNION { [1..n -> Pieces] : n \in 0..MaxPieces } }

\* Prefix strings handed to the constructor and to selector / s.
Prefixes == { <<>>, <<"$">>, <<"#">> }

\* Values of a data mapping: text, or an array of records (key -> text).
Str(t) == [kind |-> "str", text |-> t]
Arr(items) == [kind |-> "arr", items |-> items]
EmptyRec == [k \in {} |-> <<>>]

kA == <<"a">>
kB == <<"b">>
kR == <<"r">>

DataSet ==
    { (kA :> Str(<<"x">>)) @@ (kB :> Str(<<"y">>))
          @@ (kR :> Arr(<< (kA :> <<"b", "$", "b">>), EmptyRec >>)),
      (kA :> Str(<<"$", "b">>)) @@ (kB :> Str(<<"x">>)),
      (kR :> Arr(<<>>)) @@ (kB :> Str(<<"y">>)),
      (kR :> Str(<<"x">>)) @@ (kA :> Str(<<"#", "b">>)) }

\* Translation dictionaries: language -> (key -> text).
EN == <<"E", "N">>
DE == <<"D", "E">>
FR == <<"F", "R">>

Dictionaries ==
    { (EN :> (kA :> <<"H", "i">>)) @@ (DE :> (kA :> <<"H", "a", "l", "l", "o">>)),
      (DE :> ((kA :> <<"H", "a", "l", "l", "o">>) @@ (kB :> <<"y">>))) }

Languages == {DE, FR}

(***************************************************************************)
(* Objects.  The data mappings, records and dictionaries are plain objects: *)
(* `key in obj` is true for the object's own keys and for the names it      *)
(* inherits from Object.prototype, and obj[key] is then the inherited       *)
(* native function.                                                         *)
(***************************************************************************)
ObjectPrototype == { valueOf }

\* String(f) of a native function f (the white space is the engine's choice).
NativeSource(key) ==
    <<"f", "u", "n", "c", "t", "i", "o", "n", " ">> \o key
        \o <<"(", ")", " ", "{", " ", "[", "n", "a", "t", "i", "v", "e", " ",
              "c", "o", "d", "e", "]", " ", "}">>

\* key in obj
HasProperty(obj, key) == key \in DOMAIN obj \/ key \in ObjectPrototype

\* The text of every property of an object whose own values are text.
Properties(obj) ==
    [k \in DOMAIN obj \cup ObjectPrototype |->
        IF k \in DOMAIN obj THEN obj[k] ELSE NativeSource(k)]

(***************************************************************************)
(* Regular expressions                                                     *)
(***************************************************************************)
NoMatch == [found |-> FALSE]

StartsWith(s, i, lit) ==
    /\ i + Len(lit) - 1 <= Len(s)
    /\ \A k \in 1..Len(lit) : s[i + k - 1] = lit[k]

\* \w+ is greedy: the index just past the maximal run of word characters at i.
RECURSIVE WordEnd(_, _)
WordEnd(s, i) ==
    IF i <= Len(s) /\ IsWordChar(s[i]) THEN WordEnd(s, i + 1) ELSE i

\* [\s\S]*? is lazy: the first "}" at or after i, 0 when there is none.
RECURSIVE FirstClose(_, _)
FirstClose(s, i) ==
    IF i > Len(s) THEN 0
    ELSE IF s[i] = "}" THEN i
    ELSE FirstClose(s, i + 1)

\* /@for:(\w+)\{([\s\S]*?)\}/ tried at index i.
forLoopRegex(s, i) ==
    IF ~StartsWith(s, i, <<"@", "f", "o", "r", ":">>) THEN NoMatch
    ELSE LET n == WordEnd(s, i + 5) IN
         IF n = i + 5 \/ n > Len(s) \/ s[n] # "{" THEN NoMatch
         ELSE LET k == FirstClose(s, n + 1) IN
              IF k = 0 THEN NoMatch
              ELSE [found |-> TRUE,
                    arrayKey |-> SubSeq(s, i + 5, n - 1),
                    template |-> SubSeq(s, n + 1, k - 1),
                    last |-> k]

\* new RegExp(`\\${prefix}(\\w+)`, "g"): with an empty prefix the pattern is
\* \(\w+) , whose ")" is unmatched, and the constructor throws a SyntaxError.
RegExpValid(p) == p # <<>>

\* The keyword pattern tried at index i (p is matched literally).
keywordRegex(s, i, p) ==
    IF ~StartsWith(s, i, p) THEN NoMatch
    ELSE LET w == i + Len(p)
             e == WordEnd(s, w)
         IN IF e = w THEN NoMatch
            ELSE [found |-> TRUE, keyword |-> SubSeq(s, w, e - 1), last |-> e - 1]

(***************************************************************************)
(* Replacement.  The result is a sequence of cells: c is the character, id *)
(* the index of the input character it is (0 for an inserted character),   *)
(* by the index at which the replaced match began (0 for a kept one), kind *)
(* "orig" for a kept character, "val" for a character of an inserted value *)
(* and "body" for a character copied from the template of a loop block.    *)
(***************************************************************************)
Kept(s, i, j) ==
    [k \in 1..(j - i + 1) |->
        [c |-> s[i + k - 1], id |-> i + k - 1, by |-> 0, kind |-> "orig"]]

Inserted(t, at) == [k \in 1..Len(t) |-> [c |-> t[k], id |-> 0, by |-> at, kind |-> "val"]]

Chars(cells) == [k \in 1..Len(cells) |-> cells[k].c]

\* lastIndex scanning of a /g pattern: the first index at or after i where the
\* keyword pattern matches, 0 when there is none.
RECURSIVE NextKeyword(_, _, _)
NextKeyword(s, i, p) ==
    IF i > Len(s) THEN 0
    ELSE IF s[i] = p[1] /\ keywordRegex(s, i, p).found THEN i
    ELSE NextKeyword(s, i + 1, p)

\* s.replace(keywordRegex, (match, keyword) => keyword in obj ? obj[keyword] : match)
\* where map is Properties(obj).
RECURSIVE ReplaceKeywords(_, _, _, _)
ReplaceKeywords(s, i, p, map) ==
    LET j == NextKeyword(s, i, p) IN
    IF j = 0 THEN Kept(s, i, Len(s))
    ELSE LET m == keywordRegex(s, j, p) IN
         Kept(s, i, j - 1)
         \o (IF m.keyword \in DOMAIN map
             THEN Inserted(map[m.keyword], j)
             ELSE Kept(s, j, m.last))
         \o ReplaceKeywords(s, m.last + 1, p, map)

(***************************************************************************)
(* interpret (lines 56-84)                                                 *)
(***************************************************************************)
IsArray(data, key) == key \in DOMAIN data /\ data[key].kind = "arr"

\* template.replace(keywordRegex, (m, innerKey) => innerKey in item ? item[innerKey] : m)
RenderItem(template, item, p, at) ==
    LET r == ReplaceKeywords(template, 1, p, Properties(item)) IN
    [k \in 1..Len(r) |->
        [c |-> r[k].c, id |-> 0, by |-> at,
         kind |-> IF r[k].id = 0 THEN "val" ELSE "body"]]

\* arrayData.map(item => ...).join('')
RECURSIVE MapJoin(_, _, _, _)
MapJoin(template, items, p, at) ==
    IF items = <<>> THEN <<>>
    ELSE RenderItem(template, Head(items), p, at) \o MapJoin(template, Tail(items), p, at)

\* The first index at or after i where the loop pattern matches, 0 when none.
RECURSIVE NextLoop(_, _)
NextLoop(s, i) ==
    IF i > Len(s) THEN 0
    ELSE IF s[i] = "@" /\ forLoopRegex(s, i).found THEN i
    ELSE NextLoop(s, i + 1)

\* this.html.replace(forLoopRegex, (match, arrayKey, template) => ...)
RECURSIVE ExpandLoops(_, _, _, _)
ExpandLoops(s, i, p, data) ==
    LET j == NextLoop(s, i) IN
    IF j = 0 THEN Kept(s, i, Len(s))
    ELSE LET m == forLoopRegex(s, j) IN
         Kept(s, i, j - 1)
         \o (IF IsArray(data, m.arrayKey)
             THEN MapJoin(m.template, data[m.arrayKey].items, p, j)
             ELSE Kept(s, j, m.last))
         \o ExpandLoops(s, m.last + 1, p, data)

\* The callback builds the keyword pattern once per array element (line 64):
\* some matched block has a non-empty array.  With an invalid pattern the
\* callback then throws and the assignment of line 59 never happens.
RECURSIVE BuildsPattern(_, _, _)
BuildsPattern(s, i, data) ==
    LET j == NextLoop(s, i) IN
    IF j = 0 THEN FALSE
    ELSE LET m == forLoopRegex(s, j) IN
         \/ (IsArray(data, m.arrayKey) /\ data[m.arrayKey].items # <<>>)
         \/ BuildsPattern(s, m.last + 1, data)

\* keyword in data && !Array.isArray(data[keyword]) ? data[keyword] : match
Scalars(data) ==
    [k \in {x \in DOMAIN data : data[x].kind # "arr"} \cup (ObjectPrototype \ DOMAIN data) |->
        IF k \in DOMAIN data THEN data[k].text ELSE NativeSource(k)]

\* The whole of interpret: the document after the loop phase (mid, with its
\* cells t1 over the input), the final document (html, cells t2 over mid).
interpret(h, p, data) ==
    IF ~RegExpValid(p) /\ BuildsPattern(h, 1, data)
    THEN [html |-> h, mid |-> h, t1 |-> Kept(h, 1, Len(h)),
          t2 |-> Kept(h, 1, Len(h)), err |-> "SyntaxError"]
    ELSE LET c1 == ExpandLoops(h, 1, p, data)
             m == Chars(c1)
         IN IF ~RegExpValid(p)
            THEN [html |-> m, mid |-> m, t1 |-> c1,
                  t2 |-> Kept(m, 1, Len(m)), err |-> "SyntaxError"]
            ELSE LET c2 == ReplaceKeywords(m, 1, p, Scalars(data)) IN
                 [html |-> Chars(c2), mid |-> m, t1 |-> c1, t2 |-> c2, err |-> "none"]

(***************************************************************************)
(* translate (lines 92-123)                                                *)
(***************************************************************************)
NoTranslations == [k \in {} |-> <<>>]

\* language in dict ? dict[language] : 'EN' in dict ? dict['EN'] : {}
\* An inherited name selects the native function of that name, an object
\* with no translation of its own.
SelectTranslations(dict, language) ==
    IF HasProperty(dict, language)
    THEN (IF language \in DOMAIN dict THEN dict[language] ELSE NoTranslations)
    ELSE IF HasProperty(dict, EN)
    THEN (IF EN \in DOMAIN dict THEN dict[EN] ELSE NoTranslations)
    ELSE NoTranslations

\* Lines 106-122, run once the dictionary is at hand.
translate(h, p, dict, language) ==
    IF ~RegExpValid(p)
    THEN [html |-> h, mid |-> h, t1 |-> Kept(h, 1, Len(h)),
          t2 |-> Kept(h, 1, Len(h)), err |-> "SyntaxError"]
    ELSE LET c2 == ReplaceKeywords(h, 1, p, Properties(SelectTranslations(dict, language))) IN
         [html |-> Chars(c2), mid |-> h, t1 |-> Kept(h, 1, Len(h)),
          t2 |-> c2, err |-> "none"]

\* A translate that swallows the rejection and goes on with an EN dictionary.
LoadSwallowed(h, p) == translate(h, p, EN :> (kA :> <<"H", "i">>), EN)

\* `await file.json()` rejects (line 101): the promise of translate rejects
\* with that error and no later line runs.
LoadRejected(h, p) ==
    [html |-> h, mid |-> h, t1 |-> Kept(h, 1, Len(h)),
     t2 |-> Kept(h, 1, Len(h)), err |-> "DictionaryLoad"]

(***************************************************************************)
(* State                                                                   *)
(***************************************************************************)
VARIABLES
    html,      \* this.html
    prefix,    \* this.prefix
    pending,   \* language of the translate call awaiting file.json(), or "none"
    steps,     \* number of calls made so far
    last,      \* the last call: its name, argument, the state before it, its cells
    sub,       \* per character of html: inserted as a value by the last interpret
    chain      \* progress through interpret ; selector ; interpret

vars == <<html, prefix, pending, steps, last, sub, chain>>

Call(op, arg, r) ==
    [op |-> op, arg |-> arg, pre |-> html, prePrefix |-> prefix, preSub |-> sub,
     mid |-> r.mid, t1 |-> r.t1, t2 |-> r.t2, err |-> r.err]

Unchanged(h) ==
    [html |-> h, mid |-> h, t1 |-> Kept(h, 1, Len(h)), t2 |-> Kept(h, 1, Len(h)),
     err |-> "none"]

\* constructor (lines 22-25)
Init ==
    /\ html \in Docs
    /\ prefix \in Prefixes
    /\ pending = "none"
    /\ steps = 0
    /\ chain = 0
    /\ sub = [k \in 1..Len(html) |-> FALSE]
    /\ last = [op |-> "new", arg |-> prefix, pre |-> html, prePrefix |-> prefix,
               preSub |-> sub, mid |-> html, t1 |-> Kept(html, 1, Len(html)),
               t2 |-> Kept(html, 1, Len(html)), err |-> "none"]

\* selector (lines 32-35)
Selector(p) ==
    /\ pending = "none" /\ steps < MaxSteps
    /\ prefix' = p
    /\ last' = Call("selector", p, Unchanged(html))
    /\ chain' = IF chain \in {1, 3} THEN 2 ELSE 0
    /\ steps' = steps + 1
    /\ UNCHANGED <<html, pending, sub>>

\* s (lines 43-46), the alias of selector: recorded as a selector call
S(p) ==
    /\ pending = "none" /\ steps < MaxSteps
    /\ prefix' = p
    /\ last' = Call("selector", p, Unchanged(html))
    /\ chain' = IF chain \in {1, 3} THEN 2 ELSE 0
    /\ steps' = steps + 1
    /\ UNCHANGED <<html, pending, sub>>

\* interpret (lines 56-84)
Interpret(data) ==
    /\ pending = "none" /\ steps < MaxSteps
    /\ \E r \in {interpret(html, prefix, data)} :
       /\ html' = r.html
       /\ last' = Call("interpret", data, r)
       /\ sub' = [j \in 1..Len(r.t2) |->
                    IF r.t2[j].id = 0 THEN TRUE ELSE r.t1[r.t2[j].id].kind = "val"]
    /\ chain' = IF chain = 2 THEN 3 ELSE 1
    /\ steps' = steps + 1
    /\ UNCHANGED <<prefix, pending>>

\* translate with a dictionary object (lines 92-123 without the await)
TranslateObject(dict, language) ==
    /\ pending = "none" /\ steps < MaxSteps
    /\ \E r \in {translate(html, prefix, dict, language)} :
       /\ html' = r.html
       /\ last' = Call("translate", [dict |-> dict, language |-> language], r)
       /\ sub' = [j \in 1..Len(r.t2) |->
                    IF r.t2[j].id = 0 THEN FALSE ELSE sub[r.t2[j].id]]
    /\ chain' = 0
    /\ steps' = steps + 1
    /\ UNCHANGED <<prefix, pending>>

\* translate with a path, up to the await of line 101; the caller awaits the
\* returned promise, so no other call is made while the load is pending.
TranslatePath(language) ==
    /\ pending = "none" /\ steps < MaxSteps
    /\ pending' = language
    /\ last' = Call("translatePath", language, Unchanged(html))
    /\ chain' = 0
    /\ steps' = steps + 1
    /\ UNCHANGED <<html, prefix, sub>>

\* file.json() resolves with a dictionary: lines 106-122 run now.  `last`
\* keeps the document and prefix the call started with.
LoadResolved(dict) ==
    /\ pending # "none"
    /\ \E r \in {translate(html, prefix, dict, pending)} :
       /\ html' = r.html
       /\ last' = [Call("translate", [dict |-> dict, language |-> pending], r)
                     EXCEPT !.pre = last.pre, !.prePrefix = last.prePrefix]
       /\ sub' = [j \in 1..Len(r.t2) |->
                    IF r.t2[j].id = 0 THEN FALSE ELSE sub[r.t2[j].id]]
    /\ pending' = "none"
    /\ UNCHANGED <<prefix, steps, chain>>

\* file.json() rejects: translate's promise rejects.
LoadFailed ==
    /\ pending # "none"
    /\ \E r \in {LoadRejected(html, prefix)} :
       /\ html' = r.html
       /\ last' = [Call("translateFailed", pending, r)
                     EXCEPT !.pre = last.pre, !.prePrefix = last.prePrefix]
    /\ pending' = "none"
    /\ UNCHANGED <<prefix, steps, chain, sub>>

Next ==
    \/ \E p \in Prefixes : Selector(p)
    \/ \E p \in Prefixes : S(p)
    \/ \E data \in DataSet : Interpret(data)
    \/ \E dict \in Dictionaries, language \in Languages : TranslateObject(dict, language)
    \/ \E language \in Languages : TranslatePath(language)
    \/ \E dict \in Dictionaries : LoadResolved(dict)
    \/ LoadFailed

Spec == Init /\ [][Next]_vars

(***************************************************************************)
(* Reference definitions used to state the properties: what the text of    *)
(* the specification says about tokens, loop blocks and substitution,      *)
(* written position by position rather than as a scan.                     *)
(***************************************************************************)
Occurs(s, i, lit) ==
    /\ i >= 1
    /\ i + Len(lit) - 1 <= Len(s)
    /\ \A k \in 1..Len(lit) : s[i + k - 1] = lit[k]

\* Starts of the tokens <prefix><word> of s.
RefTokens(s, p) ==
    { i \in 1..Len(s) :
        Occurs(s, i, p) /\ i + Len(p) <= Len(s) /\ IsWordChar(s[i + Len(p)]) }

\* Last index of the token starting at i: its word is the maximal word run.
RefTokEnd(s, p, i) ==
    CHOOSE j \in (i + Len(p))..Len(s) :
        /\ \A k \in (i + Len(p))..j : IsWordChar(s[k])
        /\ j = Len(s) \/ ~IsWordChar(s[j + 1])

RefWord(s, p, i) == SubSeq(s, i + Len(p), RefTokEnd(s, p, i))

RECURSIVE Cat(_, _)
Cat(f, n) == IF n = 0 THEN <<>> ELSE Cat(f, n - 1) \o f[n]

\* s with every token whose word is a key of map replaced by map's value.
RefSubst(s, p, map) ==
    LET T == { t \in RefTokens(s, p) : RefWord(s, p, t) \in DOMAIN map }
        seg == [i \in 1..Len(s) |->
                  IF i \in T THEN map[RefWord(s, p, i)]
                  ELSE IF \E t \in T : t < i /\ i <= RefTokEnd(s, p, t) THEN <<>>
                  ELSE <<s[i]>>]
    IN Cat(seg, Len(s))

\* Index of the "{" of a loop opener @for:<word>{ at a, 0 when a opens none.
RefBrace(s, a) ==
    IF ~Occurs(s, a, <<"@", "f", "o", "r", ":">>) THEN 0
    ELSE LET B == { b \in (a + 6)..Len(s) :
                      s[b] = "{" /\ \A k \in (a + 5)..(b - 1) : IsWordChar(s[k]) }
         IN IF B = {} THEN 0 ELSE CHOOSE b \in B : TRUE

\* Index of the first "}" after the opener's "{", 0 when there is none.
RefClose(s, a) ==
    LET C == { c \in (RefBrace(s, a) + 1)..Len(s) : s[c] = "}" } IN
    IF RefBrace(s, a) = 0 \/ C = {} THEN 0
    ELSE CHOOSE c \in C : \A d \in C : c <= d

\* Starts of the loop blocks of s: the closed openers not inside an earlier one.
RefBlocks(s) ==
    LET Cand == { a \in 1..Len(s) : RefClose(s, a) # 0 } IN
    { a \in Cand : ~\E b \in Cand : b < a /\ a <= RefClose(s, b) }

RefName(s, a) == SubSeq(s, a + 5, RefBrace(s, a) - 1)

RefBody(s, a) == SubSeq(s, RefBrace(s, a) + 1, RefClose(s, a) - 1)

RefIsArray(data, name) == name \in DOMAIN data /\ data[name].kind = "arr"

\* The body rendered once per record, in order, with no separator.
RefRender(body, items, p) ==
    Cat([k \in 1..Len(items) |-> RefSubst(body, p, items[k])], Len(items))

\* s with every loop block over an array replaced by its rendering.
RefExpand(s, p, data) ==
    LET A == { a \in RefBlocks(s) : RefIsArray(data, RefName(s, a)) }
        seg == [i \in 1..Len(s) |->
                  IF i \in A
                  THEN RefRender(RefBody(s, i), data[RefName(s, i)].items, p)
                  ELSE IF \E a \in A : a < i /\ i <= RefClose(s, a) THEN <<>>
                  ELSE <<s[i]>>]
    IN Cat(seg, Len(s))

\* Index in last.pre of the character at index j of html, 0 for an inserted one.
Orig(j) == IF last.t2[j].id = 0 THEN 0 ELSE last.t1[last.t2[j].id].id

\* The character at index i of last.pre is still in html.
Survives(i) == \E j \in 1..Len(html) : Orig(j) = i

\* The text html holds in place of the match that began at index i of last.pre.
InsertedFor(i) ==
    LET M == { m \in 1..Len(last.mid) : last.t1[m].id = i }
        J == { j \in 1..Len(html) : \E m \in M : last.t2[j].by = m }
    IN IF J = {} THEN <<>>
       ELSE LET lo == CHOOSE j \in J : \A k \in J : j <= k IN
            [k \in 1..Cardinality(J) |-> html[lo + k - 1]]

(***************************************************************************)
(* Properties                                                              *)
(***************************************************************************)
\* C1: after interpret(m), every token of the input document outside loop
\* blocks whose word is a non-array key of m is replaced by m's value, every
\* other such token is still there unchanged, and no error is raised.
C1_TokensReplacedOrKept ==
    (last.op = "interpret" /\ RegExpValid(prefix)) =>
        /\ last.err = "none"
        /\ \A i \in RefTokens(last.pre, prefix) :
             (~\E a \in RefBlocks(last.pre) : a <= i /\ i <= RefClose(last.pre, a)) =>
                LET w == RefWord(last.pre, prefix, i)
                    e == RefTokEnd(last.pre, prefix, i)
                IN IF w \in DOMAIN last.arg /\ last.arg[w].kind # "arr"
                   THEN /\ \A k \in i..e : ~Survives(k)
                        /\ InsertedFor(i) = last.arg[w].text
                   ELSE \A k \in i..e : Survives(k)

\* C2: the loop phase of interpret(data) replaces each block @for:name{body}
\* whose name maps to an array by the body rendered once per element, in
\* array order with no separator, each token of the body replaced by the
\* element's field or left literal; marker and braces go, an empty array
\* yields the empty text, and everything else is kept.
C2_LoopExpansion ==
    (last.op = "interpret" /\ last.err = "none") =>
        last.mid = RefExpand(last.pre, prefix, last.arg)

\* C3: translate uses dictionary[language] if present, else dictionary["EN"]
\* if present, else the empty mapping, and replaces every token whose word is
\* a key of that mapping, leaving the others literal.
C3_FallbackChain ==
    (last.op = "translate" /\ last.err = "none") =>
        LET dict == last.arg.dict
            active == IF last.arg.language \in DOMAIN dict THEN dict[last.arg.language]
                      ELSE IF EN \in DOMAIN dict THEN dict[EN]
                      ELSE [k \in {} |-> <<>>]
        IN html = RefSubst(last.pre, prefix, active)

\* C4: interpret(m) right after interpret(m) leaves the document as it is.
C4_Idempotent ==
    (last.op = "interpret" /\ last.err = "none") =>
        interpret(html, prefix, last.arg).html = html

\* C5: a block @for:name{body} whose name is absent from data or is not an
\* array is, as a whole, unchanged in the document after interpret(data).
C5_NonArrayBlockUnchanged ==
    (last.op = "interpret" /\ RegExpValid(prefix)) =>
        \A a \in RefBlocks(last.pre) :
            ~RefIsArray(last.arg, RefName(last.pre, a)) =>
                \A k \in a..RefClose(last.pre, a) : Survives(k)

\* C6: an empty prefix is rejected with a configuration error at construction
\* and at selector / s, so no state has an empty prefix.
C6_EmptyPrefixRejected ==
    /\ prefix # <<>>
    /\ (last.op \in {"new", "selector"} /\ last.arg = <<>>) =>
           last.err = "ConfigurationError"

\* C7: when the dictionary load of translate(path, language) fails, the call
\* fails with the load error and the document and the prefix are what they
\* were when the call was made.
C7_FailedLoadChangesNothing ==
    /\ last.op = "translateFailed" =>
           /\ last.err = "DictionaryLoad"
           /\ html = last.pre
           /\ prefix = last.prePrefix
    /\ last.op = "translatePath" => (html = last.pre /\ prefix = last.prePrefix)

C7_Witness ==
    /\ last.op = "translateFailed"
    /\ RefTokens(html, prefix) # {}
    /\ steps >= 2

\* C8: in interpret(m1); selector(p2); interpret(m2) the selector call leaves
\* the document alone, the second interpret substitutes only tokens marked
\* with p2, and the text the first interpret inserted is unaffected.
C8_SubstitutedTextUnaffected ==
    /\ last.op = "selector" => html = last.pre
    /\ (chain = 3 /\ last.err = "none") =>
           /\ \A j \in 1..Len(html) :
                last.t2[j].by > 0 => Occurs(last.mid, last.t2[j].by, prefix)
           /\ \A i \in 1..Len(last.pre) : last.preSub[i] => Survives(i)

\* C9: text that came from a @for body (copied body text and inserted record
\* values) is not touched by the plain-substitution phase.
C9_LoopTextNotResubstituted ==
    (last.op = "interpret" /\ last.err = "none") =>
        \A m \in 1..Len(last.mid) :
            last.t1[m].kind \in {"body", "val"} =>
                \E j \in 1..Len(html) : last.t2[j].id = m

\* C10: an opener @for:name{ with no closing brace after it, and a block whose
\* body holds a nested "{", are no match for loop expansion: interpret(data)
\* does not expand them, their text stays in the document.
InMid(i) == \E m \in 1..Len(last.mid) : last.t1[m].id = i

C10_MalformedLoopUntouched ==
    (last.op = "interpret" /\ RegExpValid(prefix)) =>
        /\ last.err = "none"
        /\ \A a \in 1..Len(last.pre) :
             (RefBrace(last.pre, a) # 0 /\ RefClose(last.pre, a) = 0) =>
                 \A k \in a..Len(last.pre) : InMid(k)
        /\ \A a \in RefBlocks(last.pre) :
             (\E k \in 1..Len(RefBody(last.pre, a)) : RefBody(last.pre, a)[k] = "{") =>
                 \A k \in a..RefClose(last.pre, a) : InMid(k)

====
